---- MODULE Spec2Model ----
(***************************************************************************)
(* Model of the load / validate / repair pipeline of the STL viewer        *)
(* (src/app.js), of the earlier STL-only viewer (src/unnamed/part_000) and *)
(* of the code fixer page (src/fixer.js).                                  *)
(*                                                                         *)
(* Texts are sequences of characters.  A printable ASCII character is the  *)
(* one-character string holding it; the other characters are named:        *)
(*   "LF" \n   "CR" \r   "TAB" \t   "NUL" \x00   "VT" \x0B                 *)
(*   "BOM" \uFEFF   "NBSP" \u00A0   "EACUTE" e-acute                        *)
(***************************************************************************)
EXTENDS Integers, Sequences, FiniteSets, Bags, TLC

NULL == "null"

\* the absent text, compiler message and fixScad result
NoText == <<NULL>>
NoMessage == [run |-> 0, compile |-> 0, level |-> "none"]
NoResult == [fixed |-> NoText, changed |-> FALSE, ok |-> FALSE,
             errorMessage |-> NoMessage, returned |-> FALSE]

(***************************************************************************)
(* Character classes of the JavaScript regular expressions in the source.  *)
(***************************************************************************)
LowerLetters ==
  {"a","b","c","d","e","f","g","h","i","j","k","l","m",
   "n","o","p","q","r","s","t","u","v","w","x","y","z"}

UpperLetters ==
  {"A","B","C","D","E","F","G","H","I","J","K","L","M",
   "N","O","P","Q","R","S","T","U","V","W","X","Y","Z"}

Digits == {"0","1","2","3","4","5","6","7","8","9"}

Punctuation ==
  {" ", ",", ";", "=", "(", ")", "[", "]", "{", "}", ":", "#", ".", "-", "\\", "\"", "/"}

\* [\x20-\x7E]
PrintableAscii == LowerLetters \cup UpperLetters \cup Digits \cup Punctuation \cup {"_"}

\* \w
WordChars == LowerLetters \cup UpperLetters \cup Digits \cup {"_"}

\* \s, and the characters String.prototype.trim removes
WhiteSpace == {" ", "TAB", "LF", "CR", "VT", "NBSP", "BOM"}

\* [\x00-\x08\x0B\x0C\x0E-\x1F]
ControlChars == {"NUL", "VT"}

\* the i flag: case folding of one character
ToLower(c) ==
  CASE c = "A" -> "a" [] c = "B" -> "b" [] c = "C" -> "c" [] c = "D" -> "d"
    [] c = "E" -> "e" [] c = "F" -> "f" [] c = "G" -> "g" [] c = "H" -> "h"
    [] c = "I" -> "i" [] c = "J" -> "j" [] c = "K" -> "k" [] c = "L" -> "l"
    [] c = "M" -> "m" [] c = "N" -> "n" [] c = "O" -> "o" [] c = "P" -> "p"
    [] c = "Q" -> "q" [] c = "R" -> "r" [] c = "S" -> "s" [] c = "T" -> "t"
    [] c = "U" -> "u" [] c = "V" -> "v" [] c = "W" -> "w" [] c = "X" -> "x"
    [] c = "Y" -> "y" [] c = "Z" -> "z" [] OTHER -> c

LowerText(s) == [i \in 1..Len(s) |-> ToLower(s[i])]

(***************************************************************************)
(* String primitives of the JavaScript runtime used by the source.         *)
(***************************************************************************)
\* the text from index i on (1-based); empty when i is past the end
Drop(s, i) == IF i > Len(s) THEN << >> ELSE SubSeq(s, i, Len(s))

\* word matched case-insensitively at index i of s
MatchesAt(s, i, word) ==
  /\ i >= 1
  /\ i + Len(word) - 1 <= Len(s)
  /\ LowerText(SubSeq(s, i, i + Len(word) - 1)) = word

\* \b at the position between s[i-1] and s[i]
WordBoundaryAt(s, i) ==
  LET before == i > 1 /\ i - 1 <= Len(s) /\ s[i - 1] \in WordChars
      after  == i >= 1 /\ i <= Len(s) /\ s[i] \in WordChars
  IN before # after

\* s.replace(/\r\n?/g, "\n")
RECURSIVE ReplaceLineEndings(_)
ReplaceLineEndings(s) ==
  IF s = << >> THEN << >>
  ELSE IF Head(s) = "CR"
       THEN IF Len(s) >= 2 /\ s[2] = "LF"
            THEN <<"LF">> \o ReplaceLineEndings(Drop(s, 3))
            ELSE <<"LF">> \o ReplaceLineEndings(Tail(s))
       ELSE <<Head(s)>> \o ReplaceLineEndings(Tail(s))

\* s.replace(/c/g, d) for single characters c and d
ReplaceAllChar(s, c, d) == [i \in 1..Len(s) |-> IF s[i] = c THEN d ELSE s[i]]

\* s.replace(/[set]/g, "")
RemoveChars(s, set) == SelectSeq(s, LAMBDA c : c \notin set)

\* s.replace(/^\uFEFF/, "")
RemoveLeadingBom(s) == IF s # << >> /\ Head(s) = "BOM" THEN Tail(s) ELSE s

\* s.split("\n")
RECURSIVE SplitLines(_)
SplitLines(s) ==
  LET nl == {i \in 1..Len(s) : s[i] = "LF"}
  IN IF nl = {} THEN <<s>>
     ELSE LET k == CHOOSE i \in nl : \A j \in nl : i <= j
          IN <<SubSeq(s, 1, k - 1)>> \o SplitLines(Drop(s, k + 1))

\* lines.join("\n")
RECURSIVE JoinLines(_)
JoinLines(lines) ==
  IF lines = << >> THEN << >>
  ELSE IF Len(lines) = 1 THEN lines[1]
  ELSE lines[1] \o <<"LF">> \o JoinLines(Tail(lines))

\* s.trim()
RECURSIVE TrimStart(_)
TrimStart(s) ==
  IF s # << >> /\ Head(s) \in WhiteSpace THEN TrimStart(Tail(s)) ELSE s

RECURSIVE TrimEnd(_)
TrimEnd(s) ==
  IF s # << >> /\ s[Len(s)] \in WhiteSpace
  THEN TrimEnd(SubSeq(s, 1, Len(s) - 1)) ELSE s

Trim(s) == TrimEnd(TrimStart(s))

\* /^solid\b/i.test(text)
TestSolidHeader(text) ==
  MatchesAt(text, 1, <<"s","o","l","i","d">>) /\ WordBoundaryAt(text, 6)

\* /endsolid\b/i.test(text)
TestEndsolid(text) ==
  \E i \in 1..Len(text) :
    /\ MatchesAt(text, i, <<"e","n","d","s","o","l","i","d">>)
    /\ WordBoundaryAt(text, i + 8)

SolidModelLine == <<"s","o","l","i","d"," ","m","o","d","e","l">>
EndsolidModelLine == <<"e","n","d","s","o","l","i","d"," ","m","o","d","e","l">>

(***************************************************************************)
(* src/app.js repairStlText                                                *)
(***************************************************************************)
repairStlText(input) ==
  LET t1 == ReplaceLineEndings(input)
      t2 == ReplaceAllChar(t1, ",", " ")
      t3 == SelectSeq(t2, LAMBDA c : c \in PrintableAscii \cup {"TAB", "LF", "CR"})
      ls == SplitLines(t3)
      trimmed == [i \in 1..Len(ls) |-> Trim(ls[i])]
      t4 == JoinLines(SelectSeq(trimmed, LAMBDA line : line # << >>))
      t5 == IF ~TestSolidHeader(t4) THEN SolidModelLine \o <<"LF">> \o t4 ELSE t4
      t6 == IF ~TestEndsolid(t5) THEN t5 \o <<"LF">> \o EndsolidModelLine ELSE t5
  IN t6

(***************************************************************************)
(* src/fixer.js repairStlText (a second copy of the same function)         *)
(***************************************************************************)
fixerRepairStlText(inputText) ==
  LET t1 == ReplaceLineEndings(inputText)
      t2 == ReplaceAllChar(t1, ",", " ")
      t3 == SelectSeq(t2, LAMBDA c : c \in PrintableAscii \cup {"TAB", "LF", "CR"})
      ls == SplitLines(t3)
      trimmed == [i \in 1..Len(ls) |-> Trim(ls[i])]
      t4 == JoinLines(SelectSeq(trimmed, LAMBDA line : line # << >>))
      t5 == IF ~TestSolidHeader(t4) THEN SolidModelLine \o <<"LF">> \o t4 ELSE t4
      t6 == IF ~TestEndsolid(t5) THEN t5 \o <<"LF">> \o EndsolidModelLine ELSE t5
  IN t6

(***************************************************************************)
(* src/fixer.js normalizeScadText                                          *)
(***************************************************************************)
normalizeScadText(inputText) ==
  LET t1 == RemoveLeadingBom(inputText)
      t2 == ReplaceLineEndings(t1)
      t3 == ReplaceAllChar(t2, "NBSP", " ")
      t4 == RemoveChars(t3, ControlChars)
  IN t4

(***************************************************************************)
(* Regular-expression scanning helpers.                                    *)
(***************************************************************************)
\* first index >= i of s whose character is outside set (Len(s) + 1 if none):
\* where a greedy [set]* starting at i stops
RECURSIVE SkipWhile(_, _, _)
SkipWhile(s, i, set) ==
  IF i <= Len(s) /\ s[i] \in set THEN SkipWhile(s, i + 1, set) ELSE i

\* /\b(w1|w2|...)\b/i.test(s)
TestAnyWord(s, words) ==
  \E i \in 1..Len(s) : \E w \in words :
    MatchesAt(s, i, w) /\ WordBoundaryAt(s, i) /\ WordBoundaryAt(s, i + Len(w))

\* /facet\s+normal/i.test(s)
TestFacetNormal(s) ==
  \E i \in 1..Len(s) :
    /\ MatchesAt(s, i, <<"f","a","c","e","t">>)
    /\ LET j == SkipWhile(s, i + 5, WhiteSpace)
       IN j > i + 5 /\ MatchesAt(s, j, <<"n","o","r","m","a","l">>)

(***************************************************************************)
(* src/fixer.js detectFormat                                               *)
(***************************************************************************)
FixerScadKeywords ==
  { <<"m","o","d","u","l","e">>, <<"d","i","f","f","e","r","e","n","c","e">>,
    <<"u","n","i","o","n">>, <<"i","n","t","e","r","s","e","c","t","i","o","n">>,
    <<"t","r","a","n","s","l","a","t","e">>, <<"r","o","t","a","t","e">>,
    <<"s","c","a","l","e">>, <<"c","u","b","e">>, <<"s","p","h","e","r","e">>,
    <<"c","y","l","i","n","d","e","r">>,
    <<"p","o","l","y","h","e","d","r","o","n">> }

detectFormat(text) ==
  LET trimmed == Trim(text)
  IN IF trimmed = << >> THEN NULL
     ELSE IF TestSolidHeader(trimmed) /\ TestFacetNormal(trimmed) THEN "stl"
     ELSE IF TestAnyWord(trimmed, FixerScadKeywords) THEN "scad"
     ELSE NULL

(***************************************************************************)
(* src/fixer.js repairScadText                                             *)
(***************************************************************************)
GeometryKeywords ==
  { <<"s","p","h","e","r","e">>, <<"c","u","b","e">>,
    <<"c","y","l","i","n","d","e","r">>,
    <<"p","o","l","y","h","e","d","r","o","n">>, <<"t","e","x","t">>,
    <<"i","m","p","o","r","t">>,
    <<"l","i","n","e","a","r","_","e","x","t","r","u","d","e">>,
    <<"r","o","t","a","t","e","_","e","x","t","r","u","d","e">> }

IdentifierStart == LowerLetters \cup UpperLetters \cup {"_"}

\* the index right after /^(\s*)[A-Za-z_][\w]*\s*=\s*/ in line, or 0 when the
\* prefix does not match
AssignmentPrefixEnd(line) ==
  LET a == SkipWhile(line, 1, WhiteSpace)
  IN IF ~(a <= Len(line) /\ line[a] \in IdentifierStart) THEN 0
     ELSE LET b == SkipWhile(line, a, WordChars)
              c == SkipWhile(line, b, WhiteSpace)
          IN IF ~(c <= Len(line) /\ line[c] = "=") THEN 0
             ELSE SkipWhile(line, c + 1, WhiteSpace)

\* /^(\s*)([A-Za-z_][\w]*)\s*=\s*(sphere|cube|...)\b/i matches line
MatchesGeometryAssignment(line) ==
  LET d == AssignmentPrefixEnd(line)
  IN /\ d # 0
     /\ \E kw \in GeometryKeywords :
          MatchesAt(line, d, kw) /\ WordBoundaryAt(line, d + Len(kw))

\* working.replace(/^(\s*)[A-Za-z_][\w]*\s*=\s*/, "$1")
StripAssignmentPrefix(line) ==
  LET a == SkipWhile(line, 1, WhiteSpace)
      d == AssignmentPrefixEnd(line)
  IN IF d = 0 THEN line ELSE SubSeq(line, 1, a - 1) \o Drop(line, d)

\* one line of the map callback
RepairScadLine(line, index) ==
  LET working == IF index = 0 THEN RemoveLeadingBom(line) ELSE line
  IN IF MatchesGeometryAssignment(working)
     THEN StripAssignmentPrefix(working) ELSE working

repairScadText(inputText) ==
  LET lines == SplitLines(ReplaceLineEndings(inputText))
      fixedLines == [i \in 1..Len(lines) |-> RepairScadLine(lines[i], i - 1)]
      changed == \E i \in 1..Len(lines) :
                   MatchesGeometryAssignment(
                     IF i = 1 THEN RemoveLeadingBom(lines[i]) ELSE lines[i])
  IN [text |-> JoinLines(fixedLines), changed |-> changed]

(***************************************************************************)
(* src/app.js: format tags and format detection.  A tag is the text of the *)
(* tag, so that a file extension can become one.                           *)
(***************************************************************************)
FmtStl == <<"s","t","l">>
FmtObj == <<"o","b","j">>
FmtPly == <<"p","l","y">>
FmtOff == <<"o","f","f">>
FmtGltf == <<"g","l","t","f">>
FmtGlb == <<"g","l","b">>
Fmt3mf == <<"3","m","f">>
FmtScad == <<"s","c","a","d">>

\* src/app.js line 357
KnownExtensions == {FmtStl, FmtObj, FmtPly, FmtOff, FmtGltf, FmtGlb, Fmt3mf, FmtScad}

ViewerScadKeywords ==
  { <<"m","o","d","u","l","e">>, <<"d","i","f","f","e","r","e","n","c","e">>,
    <<"u","n","i","o","n">>, <<"i","n","t","e","r","s","e","c","t","i","o","n">>,
    <<"t","r","a","n","s","l","a","t","e">>, <<"r","o","t","a","t","e">>,
    <<"s","c","a","l","e">>, <<"c","u","b","e">>, <<"s","p","h","e","r","e">>,
    <<"c","y","l","i","n","d","e","r">> }

ObjKeywords == { <<"o">>, <<"g">>, <<"v">>, <<"v","n">>, <<"v","t">>, <<"f">> }

\* the line terminators after which ^ matches under the m flag
LineTerminators == {"LF", "CR"}

\* /^\s*\{/.test(s)
TestOpensBrace(s) ==
  LET i == SkipWhile(s, 1, WhiteSpace) IN i <= Len(s) /\ s[i] = "{"

\* /"asset"\s*:\s*\{/.test(s)
TestAssetKey(s) ==
  \E i \in 1..Len(s) :
    /\ i + 6 <= Len(s)
    /\ SubSeq(s, i, i + 6) = <<"\"","a","s","s","e","t","\"">>
    /\ LET c == SkipWhile(s, i + 7, WhiteSpace)
       IN /\ c <= Len(s) /\ s[c] = ":"
          /\ LET b == SkipWhile(s, c + 1, WhiteSpace)
             IN b <= Len(s) /\ s[b] = "{"

\* /^ply\b/i.test(s)
TestPlyHeader(s) == MatchesAt(s, 1, <<"p","l","y">>) /\ WordBoundaryAt(s, 4)

\* /^(?:c?off)\b/i.test(s)
TestOffHeader(s) ==
  \/ MatchesAt(s, 1, <<"o","f","f">>) /\ WordBoundaryAt(s, 4)
  \/ MatchesAt(s, 1, <<"c","o","f","f">>) /\ WordBoundaryAt(s, 5)

\* \s*(o|g|v|vn|vt|f)\s+ matches s from index i on
ObjStatementAt(s, i) ==
  LET k == SkipWhile(s, i, WhiteSpace)
  IN \E kw \in ObjKeywords :
       /\ MatchesAt(s, k, kw)
       /\ k + Len(kw) <= Len(s)
       /\ s[k + Len(kw)] \in WhiteSpace

\* /^(?:#.*\n)?\s*(o|g|v|vn|vt|f)\s+/im.test(s)
TestObjStatement(s) ==
  \E i \in 1..Len(s) :
    /\ i = 1 \/ s[i - 1] \in LineTerminators
    /\ \/ ObjStatementAt(s, i)
       \/ /\ s[i] = "#"
          /\ LET e == SkipWhile(s, i + 1, PrintableAscii \cup
                                  {"TAB", "NUL", "VT", "BOM", "NBSP", "EACUTE"})
             IN e <= Len(s) /\ s[e] = "LF" /\ ObjStatementAt(s, e + 1)

\* src/app.js detectFormatFromText; NoText stands for null
detectFormatFromText(text) ==
  LET trimmed == Trim(text)
  IN IF trimmed = << >> THEN NoText
     ELSE IF TestOpensBrace(trimmed) /\ TestAssetKey(trimmed) THEN FmtGltf
     ELSE IF TestSolidHeader(trimmed) /\ TestFacetNormal(trimmed) THEN FmtStl
     ELSE IF TestPlyHeader(trimmed) THEN FmtPly
     ELSE IF TestOffHeader(trimmed) THEN FmtOff
     ELSE IF TestObjStatement(trimmed) THEN FmtObj
     ELSE IF TestAnyWord(trimmed, ViewerScadKeywords) THEN FmtScad
     ELSE NoText

\* name.split(".").pop()
LastDotPart(name) ==
  LET dots == {i \in 1..Len(name) : name[i] = "."}
  IN IF dots = {} THEN name
     ELSE Drop(name, (CHOOSE i \in dots : \A j \in dots : j <= i) + 1)

\* headerText.includes("glTF")
IncludesGlbMagic(s) ==
  \E i \in 1..Len(s) :
    i + 3 <= Len(s) /\ SubSeq(s, i, i + 3) = <<"g","l","T","F">>

\* src/app.js detectFormatFromFile
detectFormatFromFile(name, headerText) ==
  LET extension == LowerText(LastDotPart(name))
  IN IF extension \in KnownExtensions THEN extension
     ELSE IF IncludesGlbMagic(headerText) THEN FmtGlb
     ELSE detectFormatFromText(headerText)

\* /facet\b/i.test(s)
TestFacet(s) ==
  \E i \in 1..Len(s) :
    MatchesAt(s, i, <<"f","a","c","e","t">>) /\ WordBoundaryAt(s, i + 5)

\* src/app.js isLikelyAsciiStl
isLikelyAsciiStl(headerText) == TestSolidHeader(headerText) /\ TestFacet(headerText)

\* textDecoder.decode(bytes): a leading byte-order mark is not part of the
\* decoded text
Decode(bytes) == RemoveLeadingBom(bytes)

\* /solid\\b/i.test(s): the word solid followed by a backslash and a b
TestSolidBackslashB(s) ==
  \E i \in 1..Len(s) : MatchesAt(s, i, <<"s","o","l","i","d","\\","b">>)

\* src/app.js line 579: buffer.slice(0, 512)
HeaderBytes == 512

HeaderOf(content) ==
  IF Len(content) <= HeaderBytes THEN content ELSE SubSeq(content, 1, HeaderBytes)

\* new Blob([text]).size: the UTF-8 length of the text
RECURSIVE ByteSize(_)
ByteSize(text) ==
  IF text = << >> THEN 0
  ELSE (IF Head(text) = "BOM" THEN 3
        ELSE IF Head(text) \in {"NBSP", "EACUTE"} THEN 2 ELSE 1)
       + ByteSize(Tail(text))

(***************************************************************************)
(* Parsed models.  A model is the list of its meshes; a mesh has the count *)
(* of its position attribute and the kind of its bounding box.             *)
(***************************************************************************)
NoObject == [isNull |-> TRUE, isObject3D |-> FALSE, meshes |-> << >>]

Model(meshes) == [isNull |-> FALSE, isObject3D |-> TRUE, meshes |-> meshes]

\* what gltf.scene || gltf.scenes[0] is for a document without scenes
NotRenderable == [isNull |-> FALSE, isObject3D |-> FALSE, meshes |-> << >>]

EmptyMesh == [count |-> 0, box |-> "empty"]
TriangleMesh == [count |-> 3, box |-> "finite"]
NonFiniteMesh == [count |-> 3, box |-> "nonfinite"]

\* what a loader that builds one mesh can return
SingleMeshModels ==
  { Model(<<EmptyMesh>>), Model(<<TriangleMesh>>), Model(<<NonFiniteMesh>>) }

\* what a loader that builds a group can return
GroupModels ==
  SingleMeshModels \cup
  { Model(<< >>), Model(<<TriangleMesh, EmptyMesh>>) }

RECURSIVE SumCounts(_)
SumCounts(meshes) ==
  IF meshes = << >> THEN 0 ELSE Head(meshes).count + SumCounts(Tail(meshes))

\* src/app.js computeObjectStats.  triangles is kept as three times its
\* value (the sum of position.count); bounds is the union of the mesh boxes
\* and size is finite unless a coordinate of bounds is not
computeObjectStats(object) ==
  LET boxes == {object.meshes[i].box : i \in 1..Len(object.meshes)}
      bounds == IF "nonfinite" \in boxes THEN "nonfinite"
                ELSE IF "finite" \in boxes THEN "finite" ELSE "empty"
  IN [bounds |-> bounds,
      sizeFinite |-> bounds # "nonfinite",
      triangles3 |-> SumCounts(object.meshes)]

NoMessageText == "none"

\* src/app.js validateObject; NoMessageText stands for null
validateObject(object) ==
  LET st == computeObjectStats(object)
  IN IF st.triangles3 <= 0
     THEN "No triangles found. Check that the data is valid."
     ELSE IF st.bounds = "empty"
     THEN "Could not compute geometry bounds. Check the data."
     ELSE IF ~st.sizeFinite
     THEN "Invalid geometry values detected. Check the data."
     ELSE NoMessageText

(***************************************************************************)
(* State.                                                                  *)
(*   txt*  : one application, and a re-application, of a text function    *)
(***************************************************************************)
VARIABLES txtIn, txtFn, txtOut, txtOut2, txtPc

textVars == <<txtIn, txtFn, txtOut, txtOut2, txtPc>>

(***************************************************************************)
(*   src/fixer.js:                                                         *)
(*   isRunning, fixerCompilerPromise (scadCompilerPromise), scadErrors     *)
(*           : the module-level variables of the fixer page                *)
(*   fxPc    : where the running fixCode call is suspended                 *)
(*   fxText  : the text fixScad was called with                            *)
(*   fxCompileText : the text of the compileScad call in progress          *)
(*   fxCompiles    : compileScad calls made by the current fixScad call    *)
(*   fxFirstError  : the message the first compileScad call threw          *)
(*   fxResult      : what fixScad returned                                 *)
(*   fxOutput, fxStatus : output.value and the status line                 *)
(*   fxRun   : alternates between the fixScad calls, so that the messages  *)
(*             of consecutive calls can be told apart                      *)
(***************************************************************************)
VARIABLES isRunning, fixerCompilerPromise, scadErrors, fxPc, fxText,
          fxCompileText, fxCompiles, fxFirstError, fxResult, fxOutput, fxStatus,
          fxRun

fixerVars == <<isRunning, fixerCompilerPromise, scadErrors, fxPc, fxText,
               fxCompileText, fxCompiles, fxFirstError, fxResult, fxOutput,
               fxStatus, fxRun>>

(***************************************************************************)
(*   src/app.js:                                                           *)
(*   currentObject, currentName, currentSize, pendingRepairText,           *)
(*   scadCompilerPromise : the module-level variables of the viewer        *)
(*   compilerBuilds : how many times the import and createOpenSCAD began  *)
(*   downloadDisabled    : downloadButton.disabled                         *)
(*   status              : the status line, [message, isError]             *)
(*   repairHidden        : repairModal.hidden                              *)
(*   loads      : the bag of the suspended load attempts                   *)
(*   lastEvent  : what the last step of the viewer did                     *)
(*   liveObjects  : parsed models created and not yet disposed             *)
(*   offerRepairs : repairer runs that led to the attempt whose repair     *)
(*                  offer is pending                                       *)
(***************************************************************************)
VARIABLES currentObject, currentName, currentSize, pendingRepairText,
          scadCompilerPromise, downloadDisabled, status, repairHidden,
          loads, lastEvent, liveObjects, offerRepairs, compilerBuilds

modelVars == <<currentObject, currentName, currentSize, downloadDisabled, status,
               liveObjects>>
promptVars == <<pendingRepairText, repairHidden, offerRepairs>>

engineVars == <<scadCompilerPromise, compilerBuilds>>

viewerVars == <<modelVars, promptVars, engineVars, loads, lastEvent>>

(***************************************************************************)
(*   src/unnamed/part_000 (the STL-only viewer):                           *)
(*   currentMesh, currentGeometry : the shown mesh and its geometry        *)
(*   stlName, stlSize : its currentName and currentSize                    *)
(*   stlStatus, stlDownloadDisabled : its status line and download button  *)
(*   stlReads : the files its FileReaders are reading                      *)
(***************************************************************************)
VARIABLES currentMesh, currentGeometry, stlName, stlSize, stlStatus,
          stlDownloadDisabled, stlReads

stlViewerVars == <<currentMesh, currentGeometry, stlName, stlSize, stlStatus,
                   stlDownloadDisabled, stlReads>>

vars == <<textVars, fixerVars, viewerVars, stlViewerVars>>

nonTextVars == <<fixerVars, viewerVars, stlViewerVars>>
nonFixerVars == <<textVars, viewerVars, stlViewerVars>>
nonViewerVars == <<textVars, fixerVars, stlViewerVars>>
nonStlViewerVars == <<textVars, fixerVars, viewerVars>>

(***************************************************************************)
(* Bounded input texts: concatenations of at most n chunks.                *)
(***************************************************************************)
MaxStlChunks == 4
MaxScadChars == 4

RECURSIVE Concats(_, _)
Concats(chunks, n) ==
  IF n = 0 THEN {<< >>}
  ELSE LET shorter == Concats(chunks, n - 1)
       IN shorter \cup {p \o c : p \in shorter, c \in chunks}

StlChunks ==
  { <<"s","o","l","i","d">>, <<"S","o","l","i","d">>, <<"e","n","d">>,
    <<"x">>, <<" ">>, <<",">>, <<"LF">>, <<"CR">>, <<"EACUTE">> }

ScadChunks ==
  { <<"BOM">>, <<"NUL">>, <<"CR">>, <<"LF">>, <<"NBSP">>, <<"a">>, <<" ">> }

StlInputs == Concats(StlChunks, MaxStlChunks)
ScadInputs == Concats(ScadChunks, MaxScadChars)

MaxScadChunks == 4

ScadLineChunks ==
  { <<"r">>, <<"=">>, <<" ">>, <<"r"," ","="," ">>, <<"c","u","b","e">>,
    <<"x">>, <<"LF">>, <<"CR">>, <<"BOM">> }

ScadLineInputs == Concats(ScadLineChunks, MaxScadChunks)

(***************************************************************************)
(* Applying the text functions to an input, then to their own output.      *)
(***************************************************************************)
DefaultName == <<"m","o","d","e","l",".","s","t","l">>
PastedPrefix == <<"p","a","s","t","e","d",".">>
RepairedName ==
  <<"r","e","p","a","i","r","e","d","-","m","o","d","e","l",".","s","t","l">>

\* the absent size
NoSize == -1

\* src/app.js line 24: the page has the repair dialog
repairModal == TRUE

NoAttempt ==
  [pc |-> "none", origin |-> "none", format |-> NoText,
   data |-> [kind |-> "none", text |-> NoText], name |-> NoText, size |-> NoSize,
   allowRepair |-> FALSE, repairs |-> 0, latest |-> FALSE]

\* what a handler did besides ending a load attempt: whether it called
\* loadInput (loadStarted), the STL parser (stlParsed) and the STL repairer
\* (repairerRan, and repairUnchanged when the repairer returned its input),
\* and the text the SCAD compiler returned to it
Did(op, loadStarted, stlParsed, repairerRan, repairUnchanged, compilerText) ==
  [op |-> op, loadStarted |-> loadStarted, stlParsed |-> stlParsed,
   repairerRan |-> repairerRan, repairUnchanged |-> repairUnchanged,
   compilerText |-> compilerText]

\* what a step of the viewer did: the handler that ran (op), the load attempt
\* it worked on, how that attempt ended in this step (outcome), the message
\* it reported, whether it surfaced a repair offer, whether a model was shown
\* when it began, what it called, and whether no call of loadInput is later
\* than the one of the attempt (latest)
Event(did, a, outcome, message, offered, hadModel) ==
  [op |-> did.op, origin |-> a.origin, format |-> a.format,
   dataKind |-> a.data.kind, text |-> a.data.text,
   allowRepair |-> a.allowRepair, repairs |-> a.repairs, latest |-> a.latest,
   outcome |-> outcome, message |-> message, offered |-> offered,
   hadModel |-> hadModel, loadStarted |-> did.loadStarted,
   stlParsed |-> did.stlParsed, repairerRan |-> did.repairerRan,
   repairUnchanged |-> did.repairUnchanged, compilerText |-> did.compilerText]

PlainEvent(op, outcome, message) ==
  Event(Did(op, FALSE, FALSE, FALSE, FALSE, NoText), NoAttempt, outcome, message,
        FALSE, FALSE)

\* src/app.js lines 70-74: the page after its script has run
ViewerInit ==
  /\ currentObject = NoObject
  /\ currentName = DefaultName
  /\ currentSize = NoSize
  /\ pendingRepairText = NoText
  /\ scadCompilerPromise = NULL
  /\ compilerBuilds = 0
  /\ downloadDisabled = TRUE
  /\ status = [message |-> "", isError |-> FALSE]
  /\ repairHidden = TRUE
  /\ loads = EmptyBag
  /\ lastEvent = PlainEvent("init", "none", "")
  /\ liveObjects = 0
  /\ offerRepairs = 0

\* src/unnamed/part_000 lines 44-47
StlViewerInit ==
  /\ currentMesh = NoObject
  /\ currentGeometry = NoObject
  /\ stlName = DefaultName
  /\ stlSize = NoSize
  /\ stlStatus = [message |-> "", isError |-> FALSE]
  /\ stlDownloadDisabled = TRUE
  /\ stlReads = EmptyBag

TextIdle ==
  /\ txtIn = << >>
  /\ txtFn = NULL
  /\ txtOut = NULL
  /\ txtOut2 = NULL
  /\ txtPc = "unused"

\* src/fixer.js lines 9-11: the page after its script has run
FixerInit ==
  /\ isRunning = FALSE
  /\ fixerCompilerPromise = NULL
  /\ scadErrors = << >>
  /\ fxPc = "idle"
  /\ fxText = NoText
  /\ fxCompileText = NoText
  /\ fxCompiles = 0
  /\ fxFirstError = NoMessage
  /\ fxResult = NoResult
  /\ fxOutput = << >>
  /\ fxStatus = NULL
  /\ fxRun = 0

TextInit(inputs) ==
  /\ txtIn \in inputs
  /\ txtFn = NULL
  /\ txtOut = NULL
  /\ txtOut2 = NULL
  /\ txtPc = "input"
  /\ FixerInit
  /\ ViewerInit
  /\ StlViewerInit

\* src/app.js repairStlText, called on txtIn
ApplyViewerRepairStl ==
  /\ txtPc = "input"
  /\ txtFn' = "app.repairStlText"
  /\ txtOut' = repairStlText(txtIn)
  /\ txtPc' = "once"
  /\ UNCHANGED <<txtIn, txtOut2, nonTextVars>>

\* src/fixer.js repairStlText, called on txtIn
ApplyFixerRepairStl ==
  /\ txtPc = "input"
  /\ txtFn' = "fixer.repairStlText"
  /\ txtOut' = fixerRepairStlText(txtIn)
  /\ txtPc' = "once"
  /\ UNCHANGED <<txtIn, txtOut2, nonTextVars>>

\* the same function called on its own output
ReapplyRepairStl ==
  /\ txtPc = "once"
  /\ txtFn \in {"app.repairStlText", "fixer.repairStlText"}
  /\ txtOut2' = IF txtFn = "app.repairStlText"
                THEN repairStlText(txtOut) ELSE fixerRepairStlText(txtOut)
  /\ txtPc' = "twice"
  /\ UNCHANGED <<txtIn, txtFn, txtOut, nonTextVars>>

\* src/fixer.js normalizeScadText, called on txtIn
ApplyNormalizeScad ==
  /\ txtPc = "input"
  /\ txtFn' = "normalizeScadText"
  /\ txtOut' = normalizeScadText(txtIn)
  /\ txtPc' = "once"
  /\ UNCHANGED <<txtIn, txtOut2, nonTextVars>>

\* normalizeScadText called on its own output
ReapplyNormalizeScad ==
  /\ txtPc = "once"
  /\ txtFn = "normalizeScadText"
  /\ txtOut2' = normalizeScadText(txtOut)
  /\ txtPc' = "twice"
  /\ UNCHANGED <<txtIn, txtFn, txtOut, nonTextVars>>

InitRepairStl == TextInit(StlInputs)
NextRepairStl == ApplyViewerRepairStl \/ ApplyFixerRepairStl \/ ReapplyRepairStl
SpecRepairStl == InitRepairStl /\ [][NextRepairStl]_vars

\* src/fixer.js repairScadText, called on txtIn; txtOut is the object it returns
ApplyRepairScad ==
  /\ txtPc = "input"
  /\ txtFn' = "repairScadText"
  /\ txtOut' = repairScadText(txtIn)
  /\ txtPc' = "once"
  /\ UNCHANGED <<txtIn, txtOut2, nonTextVars>>

InitRepairScad == TextInit(ScadLineInputs)
NextRepairScad == ApplyRepairScad
SpecRepairScad == InitRepairScad /\ [][NextRepairScad]_vars

InitNormalize == TextInit(ScadInputs)
NextNormalize == ApplyNormalizeScad \/ ReapplyNormalizeScad
SpecNormalize == InitNormalize /\ [][NextNormalize]_vars

(***************************************************************************)
(* src/fixer.js: the fix button, fixCode, fixScad and compileScad.         *)
(*                                                                         *)
(* A compiler message is [compile |-> k, level |-> l]: k is the compileScad*)
(* call of the current fixScad call during which it was produced and l is  *)
(* what its text looks like to getScadErrorMessage.                        *)
(***************************************************************************)
MaxLog == 2

LogLevels == {"error", "warning", "info"}

FormatChoices == {"auto", "scad", "stl"}

ScadAssign == <<"r","=","c","u","b","e","(","1",")",";">>
ScadPlain == <<"c","u","b","e","(","1",")",";">>
ScadTwoLine ==
  <<"a","=","1",";","LF","s"," ","="," ","s","p","h","e","r","e","(","2",")",";">>
ScadNear == <<"r","=","c","u","b","e","s",";">>
StlComplete ==
  <<"s","o","l","i","d"," ","a","LF","f","a","c","e","t"," ","n","o","r","m","a","l",
    "LF","e","n","d","s","o","l","i","d"," ","a">>
StlOpen ==
  <<"s","o","l","i","d"," ","a","LF","f","a","c","e","t"," ","n","o","r","m","a","l">>

FixerInputs ==
  { ScadAssign, ScadPlain, ScadTwoLine, ScadNear, StlComplete, StlOpen,
    <<" ">>, <<"EACUTE">> }

\* src/fixer.js lines 178, 171, 200 and 145 for each text that can be entered
FixerText == [raw \in FixerInputs |-> Trim(RemoveLeadingBom(raw))]
FixerDetected == [raw \in FixerInputs |-> detectFormat(FixerText[raw])]
FixerStlFixed == [raw \in FixerInputs |-> fixerRepairStlText(FixerText[raw])]
FixerScadRepair ==
  [text \in {FixerText[raw] : raw \in FixerInputs} |-> repairScadText(text)]

\* src/fixer.js getScadErrorMessage: the latest error line, else the latest
\* warning line, else null
getScadErrorMessage ==
  LET errs == {i \in 1..Len(scadErrors) : scadErrors[i].level = "error"}
      warns == {i \in 1..Len(scadErrors) : scadErrors[i].level = "warning"}
      last(set) == CHOOSE i \in set : \A j \in set : j <= i
  IN IF errs # {} THEN scadErrors[last(errs)]
     ELSE IF warns # {} THEN scadErrors[last(warns)]
     ELSE NoMessage

\* a variant of the clearing of the log that keeps its messages
KeepLog == UNCHANGED scadErrors

\* src/fixer.js lines 117 and 119: scadErrors.length = 0
ClearLog == scadErrors' = << >>

\* compileScad up to its first await: clear the log, ask for the compiler
StartCompile(text, k) ==
  /\ ClearLog
  /\ fixerCompilerPromise' =
       IF fixerCompilerPromise = NULL THEN "pending" ELSE fixerCompilerPromise
  /\ fxCompileText' = text
  /\ fxCompiles' = k
  /\ fxPc' = "engine"

\* fixCode after fixScad returned, and the finally of the click handler
FinishFixScad(result) ==
  /\ fxResult' = result
  /\ fxOutput' = result.fixed
  /\ fxStatus' = IF result.ok /\ ~result.changed THEN "SCAD looks valid."
                 ELSE IF result.ok THEN "Fixed SCAD and it now compiles."
                 ELSE "Fixer could not fully repair the SCAD."
  /\ isRunning' = FALSE
  /\ fxPc' = "idle"

\* a compileScad call returned its output
FixScadCompiled ==
  /\ FinishFixScad([fixed |-> IF fxCompiles = 1 THEN fxText
                              ELSE FixerScadRepair[fxText].text,
                    changed |-> fxCompiles # 1, ok |-> TRUE,
                    errorMessage |-> NoMessage, returned |-> TRUE])
  /\ UNCHANGED <<scadErrors, fixerCompilerPromise, fxText, fxCompileText,
                 fxCompiles, fxFirstError>>

\* a variant of the catch blocks that recompiles whether or not the
\* repairer changed the text
FixScadCatchAlwaysRetry(message) ==
  IF fxCompiles = 1
  THEN /\ StartCompile(FixerScadRepair[fxText].text, 2)
       /\ fxFirstError' = message
       /\ UNCHANGED <<isRunning, fxText, fxResult, fxOutput, fxStatus>>
  ELSE /\ FinishFixScad([fixed |-> FixerScadRepair[fxText].text, changed |-> TRUE,
                         ok |-> FALSE, errorMessage |-> message,
                         returned |-> TRUE])
       /\ UNCHANGED <<scadErrors, fixerCompilerPromise, fxText, fxCompileText,
                      fxCompiles, fxFirstError>>

\* the catch blocks of fixScad: a compileScad call threw message
FixScadCatch(message) ==
  IF fxCompiles = 1
  THEN LET result == FixerScadRepair[fxText]
       IN IF ~result.changed
          THEN /\ FinishFixScad([fixed |-> fxText, changed |-> FALSE,
                                 ok |-> FALSE, errorMessage |-> message,
                         returned |-> TRUE])
               /\ fxFirstError' = message
               /\ UNCHANGED <<scadErrors, fixerCompilerPromise, fxText,
                              fxCompileText, fxCompiles>>
          ELSE /\ StartCompile(result.text, 2)
               /\ fxFirstError' = message
               /\ UNCHANGED <<isRunning, fxText, fxResult, fxOutput, fxStatus>>
  ELSE /\ FinishFixScad([fixed |-> FixerScadRepair[fxText].text, changed |-> TRUE,
                         ok |-> FALSE, errorMessage |-> message,
                         returned |-> TRUE])
       /\ UNCHANGED <<scadErrors, fixerCompilerPromise, fxText, fxCompileText,
                      fxCompiles, fxFirstError>>

\* the click handler of the fix button and fixCode up to its first await
FixClick ==
  /\ ~isRunning
  /\ \E raw \in FixerInputs : \E choice \in FormatChoices :
       LET text == FixerText[raw]
           format == IF choice = "auto" THEN FixerDetected[raw] ELSE choice
       IN IF text = << >>
          THEN /\ fxOutput' = << >>
               /\ fxStatus' = "Paste code before fixing."
               /\ fxText' = NoText
               /\ fxCompiles' = 0
               /\ UNCHANGED <<isRunning, fixerCompilerPromise, scadErrors, fxPc,
                              fxCompileText>>
          ELSE IF format = NULL
          THEN /\ fxOutput' = << >>
               /\ fxStatus' = "Choose SCAD or STL in the format menu."
               /\ fxText' = NoText
               /\ fxCompiles' = 0
               /\ UNCHANGED <<isRunning, fixerCompilerPromise, scadErrors, fxPc,
                              fxCompileText>>
          ELSE IF format = "stl"
          THEN LET fixed == FixerStlFixed[raw]
               IN /\ fxOutput' = fixed
                  /\ fxStatus' = IF fixed = text
                                 THEN "STL looks valid. No changes needed."
                                 ELSE "Applied STL fixes."
                  /\ fxText' = NoText
                  /\ fxCompiles' = 0
                  /\ UNCHANGED <<isRunning, fixerCompilerPromise, scadErrors,
                                 fxPc, fxCompileText>>
          ELSE /\ isRunning' = TRUE
               /\ fxOutput' = << >>
               /\ fxStatus' = "Checking SCAD..."
               /\ fxText' = text
               /\ StartCompile(text, 1)
  /\ fxFirstError' = NoMessage
  /\ fxResult' = NoResult
  /\ fxRun' = IF isRunning' THEN 1 - fxRun ELSE fxRun
  /\ UNCHANGED nonFixerVars

\* src/fixer.js getScadCompiler: the import and createOpenSCAD succeed
EngineLoads ==
  /\ fixerCompilerPromise = "pending"
  /\ fixerCompilerPromise' = "fulfilled"
  /\ UNCHANGED <<isRunning, scadErrors, fxPc, fxText, fxCompileText, fxCompiles,
                 fxFirstError, fxResult, fxOutput, fxStatus, fxRun, nonFixerVars>>

\* src/fixer.js getScadCompiler: the import or createOpenSCAD fails
EngineFails ==
  /\ fixerCompilerPromise = "pending"
  /\ fixerCompilerPromise' = "rejected"
  /\ UNCHANGED <<isRunning, scadErrors, fxPc, fxText, fxCompileText, fxCompiles,
                 fxFirstError, fxResult, fxOutput, fxStatus, fxRun, nonFixerVars>>

\* recordScadError: the compiler prints while it is constructed or renders
CompilerPrint ==
  /\ fxPc = "render" \/ (fxPc = "engine" /\ fixerCompilerPromise = "pending")
  /\ Len(scadErrors) < MaxLog
  /\ \E level \in LogLevels :
       scadErrors' = Append(scadErrors, [run |-> fxRun, compile |-> fxCompiles,
                                         level |-> level])
  /\ UNCHANGED <<isRunning, fixerCompilerPromise, fxPc, fxText, fxCompileText,
                 fxCompiles, fxFirstError, fxResult, fxOutput, fxStatus, fxRun,
                 nonFixerVars>>

\* compileScad resumes with the compiler: clear the log, normalize, render
CompileRenders ==
  /\ fxPc = "engine"
  /\ fixerCompilerPromise = "fulfilled"
  /\ ClearLog
  /\ fxCompileText' = normalizeScadText(fxCompileText)
  /\ fxPc' = "render"
  /\ UNCHANGED <<isRunning, fixerCompilerPromise, fxText, fxCompiles,
                 fxFirstError, fxResult, fxOutput, fxStatus, fxRun, nonFixerVars>>

\* compileScad resumes with the rejection of the compiler promise
CompileWithoutEngine ==
  /\ fxPc = "engine"
  /\ fixerCompilerPromise = "rejected"
  /\ FixScadCatch([run |-> fxRun, compile |-> fxCompiles,
                   level |-> "import failed"])
  /\ UNCHANGED <<fxRun, nonFixerVars>>

\* compileScad after renderToStl settled
RenderSettles ==
  /\ fxPc = "render"
  /\ \E outcome \in {"output", "throws", "no output", "empty output"} :
       IF outcome = "output" THEN FixScadCompiled
       ELSE FixScadCatch(IF getScadErrorMessage # NoMessage THEN getScadErrorMessage
                         ELSE [run |-> fxRun, compile |-> fxCompiles,
                               level |-> outcome])
  /\ UNCHANGED <<fxRun, nonFixerVars>>

InitFixer == TextIdle /\ FixerInit /\ ViewerInit /\ StlViewerInit
NextFixer ==
  \/ FixClick
  \/ EngineLoads
  \/ EngineFails
  \/ CompilerPrint
  \/ CompileRenders
  \/ CompileWithoutEngine
  \/ RenderSettles
SpecFixer == InitFixer /\ [][NextFixer]_vars

(***************************************************************************)
(* Properties of fixScad.                                                  *)
(***************************************************************************)
\* C4: a fixScad call makes one or two compileScad calls and never more; it
\* makes the second exactly when the first failed and repairScadText reported
\* a change; a failed first compile with no change ends in failure with the
\* first compile's message and the original text.
C4_FixScadCompilesOnceOrTwice ==
  /\ fxCompiles <= 2
  /\ fxCompiles = 2 => (fxFirstError # NoMessage /\ repairScadText(fxText).changed)
  /\ fxResult.returned =>
       /\ fxCompiles \in {1, 2}
       /\ fxCompiles = 2 <=> (fxFirstError # NoMessage /\ repairScadText(fxText).changed)
       /\ (fxFirstError # NoMessage /\ ~repairScadText(fxText).changed) =>
            /\ ~fxResult.ok
            /\ fxResult.errorMessage = fxFirstError
            /\ fxResult.errorMessage.compile = 1
            /\ fxResult.fixed = fxText
       /\ fxCompiles = 2 => fxResult.changed
       /\ fxCompiles = 1 => ~fxResult.changed

\* a failed first compile, a changed text and a second compile have ended fixScad
C4_Witness_Recompiled ==
  /\ fxResult.returned
  /\ fxCompiles = 2
  /\ fxResult.changed

\* C17: while a compile is in flight the log holds only messages appended
\* since that compile began, and only one compile is in flight at a time;
\* so the diagnostic of a failed compile is a message of that compile, never
\* one of the first compile of a repair-and-recompile or of an earlier click.
C17_DiagnosticFromCurrentCompile ==
  /\ isRunning <=> fxPc # "idle"
  /\ fxPc # "idle" =>
       \A i \in 1..Len(scadErrors) :
         scadErrors[i].run = fxRun /\ scadErrors[i].compile = fxCompiles
  /\ fxFirstError # NoMessage =>
       fxFirstError.run = fxRun /\ fxFirstError.compile = 1
  /\ (fxResult.returned /\ ~fxResult.ok) =>
       /\ fxResult.errorMessage.run = fxRun
       /\ fxResult.errorMessage.compile = fxCompiles

\* both compiles of a repair-and-recompile failed with a diagnostic taken
\* from the log
C17_Witness_TwoLoggedFailures ==
  /\ fxResult.returned
  /\ ~fxResult.ok
  /\ fxCompiles = 2
  /\ fxFirstError.level \in {"error", "warning"}
  /\ fxResult.errorMessage.level \in {"error", "warning"}
  /\ scadErrors # << >>

(***************************************************************************)
(* src/app.js: the viewer.                                                 *)
(*                                                                         *)
(* A handler runs to its next suspension in one step.  A load attempt is   *)
(* suspended while file.arrayBuffer() is pending (pc "reading"), while the *)
(* glTF loader parses (pc "parsing"), while the SCAD compiler is imported  *)
(* (pc "engine") and while it renders (pc "render").  The loaders and the  *)
(* compiler are outside the repository: each returns any of the results it *)
(* can return.                                                             *)
(***************************************************************************)
MaxInFlight == 2

StlRepaired ==
  <<"s","o","l","i","d"," ","a","LF","f","a","c","e","t"," ","n","o","r","m","a","l",
    "LF","e","n","d","s","o","l","i","d"," ","m","o","d","e","l">>
GltfJson == <<"{","\"","a","s","s","e","t","\"",":","{","}","}">>
ObjText == <<"v"," ","1">>
BinaryStlBytes == <<"NUL","NUL","EACUTE">>

PasteInputs == {StlOpen, StlRepaired, ScadPlain, GltfJson, ObjText, <<" ">>, <<"x">>}

FileInputs ==
  { [name |-> <<"a",".","s","t","l">>, content |-> <<"BOM">> \o StlOpen],
    [name |-> <<"b",".","S","T","L">>, content |-> BinaryStlBytes],
    [name |-> <<"c">>, content |-> ObjText],
    [name |-> <<"e",".","t","x","t">>, content |-> <<"x">>] }

\* what the external compiler's renderToStl can resolve to
ScadOutputs == {<< >>, StlComplete, <<"s","o","l","i","d","\\","b">>}

\* src/app.js lines 555, 561 and 567 for each text that can be pasted
PastedText == [value \in PasteInputs |-> Trim(RemoveLeadingBom(value))]
PastedFormat == [value \in PasteInputs |-> detectFormatFromText(PastedText[value])]
PastedSize == [value \in PasteInputs |-> ByteSize(PastedText[value])]

\* src/app.js lines 579-600 for each file that can be chosen: the header
\* text, the detected tag, and the data and allowRepair given to loadInput
FileHeader == [file \in FileInputs |-> Decode(HeaderOf(file.content))]
FileFormat ==
  [file \in FileInputs |-> detectFormatFromFile(file.name, FileHeader[file])]
FileAllowRepair ==
  [file \in FileInputs |->
     FileFormat[file] = FmtStl /\ isLikelyAsciiStl(FileHeader[file])]
FileData ==
  [file \in FileInputs |->
     IF \/ FileFormat[file] = FmtStl /\ isLikelyAsciiStl(FileHeader[file])
        \/ FileFormat[file] \in {FmtObj, FmtOff, FmtGltf, FmtScad}
     THEN [kind |-> "string", text |-> Decode(file.content)]
     ELSE [kind |-> "buffer", text |-> file.content]]
FileSize == [file \in FileInputs |-> ByteSize(file.content)]

\* the texts a repair offer can carry, and src/app.js line 648 for each
OfferedTexts ==
  LET given == {PastedText[value] : value \in PasteInputs} \cup
               {FileData[file].text : file \in FileInputs}
  IN given \cup {repairStlText(t) : t \in given}
RepairedStlText == [t \in OfferedTexts |-> repairStlText(t)]
RepairedSize == [t \in OfferedTexts |-> ByteSize(repairStlText(t))]

\* a suspended attempt joins, or leaves, those in flight
Suspend(inFlight, a) == inFlight (+) SetToBag({a})
Resume(inFlight, a) == inFlight (-) SetToBag({a})

\* a call of loadInput makes every attempt in flight an earlier one
Superseded(inFlight) ==
  LET earlier == {[a EXCEPT !.latest = FALSE] : a \in BagToSet(inFlight)}
  IN [a \in earlier |->
        CopiesIn(a, inFlight) + CopiesIn([a EXCEPT !.latest = TRUE], inFlight)]

Threw(message) == [threw |-> TRUE, message |-> message, object |-> NoObject]
Returned(object) == [threw |-> FALSE, message |-> "", object |-> object]

\* the results of parseByFormat for each tag
ParseOutcomes(format) ==
  {Threw("parser error")} \cup
  IF format \in {FmtStl, FmtPly, FmtOff}
  THEN {Returned(o) : o \in SingleMeshModels}
  ELSE IF format \in {FmtGltf, FmtGlb}
  THEN {Returned(o) : o \in GroupModels \cup {NotRenderable}}
  ELSE {Returned(o) : o \in GroupModels}

CurrentPrompt ==
  [text |-> pendingRepairText, hidden |-> repairHidden, repairs |-> offerRepairs]

\* the prompt after hideRepairPrompt
HiddenPrompt ==
  IF repairModal THEN [text |-> NoText, hidden |-> TRUE, repairs |-> 0]
  ELSE CurrentPrompt

SetPrompt(pr) ==
  /\ pendingRepairText' = pr.text
  /\ repairHidden' = pr.hidden
  /\ offerRepairs' = pr.repairs

\* src/app.js showRepairPrompt
showRepairPrompt(a, pr) ==
  IF ~repairModal \/ a.data.kind # "string" THEN SetPrompt(pr)
  ELSE SetPrompt([text |-> a.data.text, hidden |-> FALSE, repairs |-> a.repairs])

\* a variant of line 167 that leaves the download button as it is
leaveDownload == UNCHANGED downloadDisabled

\* src/app.js line 167: downloadButton.disabled = true
disableDownload == downloadDisabled' = TRUE

\* a variant of clearModel that leaves the shown model in place
clearModelKeepingObject(message, isError) ==
  /\ UNCHANGED <<currentObject, currentName, currentSize>>
  /\ downloadDisabled' = TRUE
  /\ status' = IF message # "" THEN [message |-> message, isError |-> isError]
               ELSE status

\* src/app.js clearModel
clearModel(message, isError) ==
  /\ currentObject' = NoObject
  /\ currentName' = DefaultName
  /\ currentSize' = NoSize
  /\ disableDownload
  /\ status' = IF message # "" THEN [message |-> message, isError |-> isError]
               ELSE status

\* the models disposed when the shown model is removed
Shown == IF currentObject.isNull THEN 0 ELSE 1

\* src/app.js finalizeLoad (with showObject)
finalizeLoad(object, name, size) ==
  /\ currentName' = IF name = << >> THEN DefaultName ELSE name
  /\ currentSize' = size
  /\ currentObject' = object
  /\ downloadDisabled' = FALSE
  /\ status' = [message |-> "loaded. Ready to download.", isError |-> FALSE]

\* src/app.js lines 529 and 545: allowRepair && typeof data === "string"
OffersRepair(a) == a.allowRepair /\ a.data.kind = "string"

\* src/app.js loadInput from the point where parseByFormat has settled with
\* res; pr is the repair prompt as the handler left it
CompleteLoad(did, a, res, pr) ==
  LET offered == OffersRepair(a) /\ repairModal
      validationMessage == validateObject(res.object)
  IN IF res.threw
     THEN /\ clearModel(res.message, TRUE)
          /\ liveObjects' = liveObjects - Shown
          /\ IF OffersRepair(a) THEN showRepairPrompt(a, pr) ELSE SetPrompt(pr)
          /\ lastEvent' = Event(did, a, "parseError", res.message, offered,
                                ~currentObject.isNull)
     ELSE IF res.object.isNull \/ ~res.object.isObject3D
     THEN /\ clearModel("did not contain any renderable geometry.", TRUE)
          /\ liveObjects' = liveObjects - Shown
          /\ SetPrompt(pr)
          /\ lastEvent' = Event(did, a, "notRenderable",
                                "did not contain any renderable geometry.", FALSE,
                                ~currentObject.isNull)
     ELSE IF validationMessage # NoMessageText
     THEN /\ clearModel(validationMessage, TRUE)
          /\ liveObjects' = (liveObjects + 1) - 1 - Shown
          /\ IF OffersRepair(a) THEN showRepairPrompt(a, pr) ELSE SetPrompt(pr)
          /\ lastEvent' = Event(did, a, "invalid", validationMessage, offered,
                                ~currentObject.isNull)
     ELSE /\ finalizeLoad(res.object, a.name, a.size)
          /\ liveObjects' = (liveObjects + 1) - Shown
          /\ SetPrompt(pr)
          /\ lastEvent' = Event(did, a, "loaded", "loaded. Ready to download.",
                                FALSE, ~currentObject.isNull)

\* a variant of getScadCompiler that constructs a compiler on every call
getScadCompilerUnmemoized ==
  /\ scadCompilerPromise' = "pending"
  /\ compilerBuilds' = compilerBuilds + 1

\* src/app.js getScadCompiler up to its return: the first call starts the
\* import and the construction and keeps their promise
getScadCompiler ==
  IF scadCompilerPromise = NULL
  THEN /\ scadCompilerPromise' = "pending"
       /\ compilerBuilds' = compilerBuilds + 1
  ELSE UNCHANGED <<scadCompilerPromise, compilerBuilds>>

\* src/app.js loadInput from its call to its first suspension, or to its end
\* when the parser of the format is synchronous; rest is the other suspended
\* attempts
BeginLoad(did, attempt, inFlight, pr) ==
  LET a == [attempt EXCEPT !.latest = TRUE]
      rest == Superseded(inFlight)
  IN
  IF a.format \in {FmtGltf, FmtGlb}
  THEN /\ BagCardinality(rest) < MaxInFlight
       /\ loads' = Suspend(rest, [a EXCEPT !.pc = "parsing"])
       /\ status' = [message |-> "Loading...", isError |-> FALSE]
       /\ downloadDisabled' = TRUE
       /\ SetPrompt(pr)
       /\ lastEvent' = Event(did, a, "suspended", "Loading...", FALSE,
                             ~currentObject.isNull)
       /\ UNCHANGED <<currentObject, currentName, currentSize, liveObjects,
                      engineVars>>
  ELSE IF a.format = FmtScad
  THEN /\ BagCardinality(rest) < MaxInFlight
       /\ loads' = Suspend(rest, [a EXCEPT !.pc = "engine"])
       /\ status' = [message |-> "Loading SCAD engine...", isError |-> FALSE]
       /\ downloadDisabled' = TRUE
       /\ getScadCompiler
       /\ SetPrompt(pr)
       /\ lastEvent' = Event(did, a, "suspended", "Loading SCAD engine...", FALSE,
                             ~currentObject.isNull)
       /\ UNCHANGED <<currentObject, currentName, currentSize, liveObjects>>
  ELSE /\ loads' = rest
       /\ \E res \in ParseOutcomes(a.format) :
            CompleteLoad([did EXCEPT !.stlParsed = a.format = FmtStl], a, res, pr)
       /\ UNCHANGED engineVars

\* a handler ends the attempt before loadInput is called
RejectInput(op, outcome, message, rest) ==
  /\ clearModel(message, TRUE)
  /\ liveObjects' = liveObjects - Shown
  /\ loads' = rest
  /\ lastEvent' = PlainEvent(op, outcome, message)
  /\ UNCHANGED <<promptVars, engineVars>>

\* a variant of the allowRepair of handleText that is always on
TextAllowRepairAlways(format) == TRUE

\* src/app.js line 569
TextAllowRepair(format) == format = FmtStl

\* src/app.js handleText, from the click on the load button
HandleText ==
  /\ \E value \in PasteInputs :
       LET text == PastedText[value]
           format == PastedFormat[value]
       IN IF text = << >>
          THEN RejectInput("handleText", "emptyInput",
                           "Paste model code before loading.", loads)
          ELSE IF format = NoText
          THEN RejectInput("handleText", "unrecognized",
                           "Unrecognized format.", loads)
          ELSE BeginLoad(Did("handleText", TRUE, FALSE, FALSE, FALSE, NoText),
                         [pc |-> "start", origin |-> "text", format |-> format,
                          data |-> [kind |-> "string", text |-> text],
                          name |-> PastedPrefix \o format,
                          size |-> PastedSize[value],
                          allowRepair |-> TextAllowRepair(format),
                          repairs |-> 0, latest |-> FALSE],
                         loads, CurrentPrompt)
  /\ UNCHANGED nonViewerVars

\* src/app.js handleFile up to await file.arrayBuffer()
HandleFile ==
  /\ BagCardinality(loads) < MaxInFlight
  /\ \E file \in FileInputs :
       loads' = Suspend(loads,
                  [pc |-> "reading", origin |-> "file", format |-> NoText,
                   data |-> [kind |-> "buffer", text |-> file.content],
                   name |-> file.name, size |-> FileSize[file],
                   allowRepair |-> FALSE, repairs |-> 0, latest |-> FALSE])
  /\ lastEvent' = PlainEvent("handleFile", "suspended", "")
  /\ UNCHANGED <<modelVars, promptVars, engineVars, nonViewerVars>>

\* src/app.js handleFile after the buffer arrived
FileRead ==
  /\ \E a \in BagToSet(loads) :
       /\ a.pc = "reading"
       /\ LET file == [name |-> a.name, content |-> a.data.text]
              format == FileFormat[file]
          IN IF format = NoText
             THEN RejectInput("fileRead", "unrecognized",
                              "Unrecognized file format.", Resume(loads, a))
             ELSE BeginLoad(Did("fileRead", TRUE, FALSE, FALSE, FALSE, NoText),
                            [a EXCEPT !.pc = "start", !.format = format,
                                      !.data = FileData[file],
                                      !.allowRepair = FileAllowRepair[file]],
                            Resume(loads, a), CurrentPrompt)
  /\ UNCHANGED nonViewerVars

\* file.arrayBuffer() rejected: the catch of the change and drop handlers
FileReadFails ==
  /\ \E a \in BagToSet(loads) :
       /\ a.pc = "reading"
       /\ RejectInput("fileRead", "readError", "Could not read the file.",
                      Resume(loads, a))
  /\ UNCHANGED nonViewerVars

\* src/app.js parseGltf settled: loadInput resumes
GltfSettles ==
  /\ \E a \in BagToSet(loads) :
       /\ a.pc = "parsing"
       /\ loads' = Resume(loads, a)
       /\ \E res \in ParseOutcomes(a.format) :
            CompleteLoad(Did("loadInput", FALSE, FALSE, FALSE, FALSE, NoText),
                         a, res, CurrentPrompt)
  /\ UNCHANGED <<engineVars, nonViewerVars>>

\* src/app.js getScadCompiler: the import and createOpenSCAD succeed
ViewerEngineLoads ==
  /\ scadCompilerPromise = "pending"
  /\ scadCompilerPromise' = "fulfilled"
  /\ lastEvent' = PlainEvent("engine", "none", "")
  /\ UNCHANGED <<compilerBuilds, modelVars, promptVars, loads, nonViewerVars>>

\* src/app.js getScadCompiler: the import or createOpenSCAD fails
ViewerEngineFails ==
  /\ scadCompilerPromise = "pending"
  /\ scadCompilerPromise' = "rejected"
  /\ lastEvent' = PlainEvent("engine", "none", "")
  /\ UNCHANGED <<compilerBuilds, modelVars, promptVars, loads, nonViewerVars>>

\* src/app.js parseScad resumes with the compiler and calls renderToStl
ScadCompiles ==
  /\ scadCompilerPromise = "fulfilled"
  /\ \E a \in BagToSet(loads) :
       /\ a.pc = "engine"
       /\ loads' = Suspend(Resume(loads, a), [a EXCEPT !.pc = "render"])
       /\ lastEvent' = Event(Did("parseScad", FALSE, FALSE, FALSE, FALSE, NoText),
                             a, "suspended", "Compiling SCAD...", FALSE,
                             ~currentObject.isNull)
  /\ status' = [message |-> "Compiling SCAD...", isError |-> FALSE]
  /\ UNCHANGED <<currentObject, currentName, currentSize, downloadDisabled,
                 liveObjects, promptVars, engineVars, nonViewerVars>>

\* src/app.js parseScad resumes with the rejection of the compiler promise
ScadEngineRejected ==
  /\ scadCompilerPromise = "rejected"
  /\ \E a \in BagToSet(loads) :
       /\ a.pc = "engine"
       /\ loads' = Resume(loads, a)
       /\ CompleteLoad(Did("parseScad", FALSE, FALSE, FALSE, FALSE, NoText),
                       a, Threw("import failed"), CurrentPrompt)
  /\ UNCHANGED <<engineVars, nonViewerVars>>

\* src/app.js parseScad after renderToStl settled, and the rest of loadInput
ScadRenderSettles ==
  /\ \E a \in BagToSet(loads) :
       /\ a.pc = "render"
       /\ loads' = Resume(loads, a)
       /\ \/ CompleteLoad(Did("parseScad", FALSE, FALSE, FALSE, FALSE, NoText),
                          a, Threw("compiler error"), CurrentPrompt)
          \/ \E stlOutput \in ScadOutputs :
               IF stlOutput = << >> \/ ~TestSolidBackslashB(stlOutput)
               THEN CompleteLoad(
                      Did("parseScad", FALSE, FALSE, FALSE, FALSE, stlOutput),
                      a, Threw("SCAD compile failed. Check the syntax."),
                      CurrentPrompt)
               ELSE \E res \in ParseOutcomes(FmtStl) :
                      CompleteLoad(
                        Did("parseScad", FALSE, TRUE, FALSE, FALSE, stlOutput),
                        a, res, CurrentPrompt)
  /\ UNCHANGED <<engineVars, nonViewerVars>>

\* a variant of the allowRepair that applyRepair passes to loadInput
RetryAllowRepairOn == TRUE

\* src/app.js line 660
RetryAllowRepair == FALSE

\* src/app.js applyRepair, from the click on the confirm button of the dialog
ApplyRepair ==
  /\ ~repairHidden
  /\ IF pendingRepairText = NoText
     THEN /\ SetPrompt(HiddenPrompt)
          /\ lastEvent' = PlainEvent("applyRepair", "none", "")
          /\ UNCHANGED <<modelVars, engineVars, loads>>
     ELSE LET repaired == RepairedStlText[pendingRepairText]
              unchanged == repaired = pendingRepairText
              a == [pc |-> "start", origin |-> "repair", format |-> FmtStl,
                    data |-> [kind |-> "string", text |-> repaired],
                    name |-> RepairedName,
                    size |-> RepairedSize[pendingRepairText],
                    allowRepair |-> RetryAllowRepair,
                    repairs |-> offerRepairs + 1, latest |-> TRUE]
          IN IF repaired = << >> \/ repaired = HiddenPrompt.text
             THEN /\ SetPrompt(HiddenPrompt)
                  /\ status' = [message |-> "No fixable issues found in the STL text.",
                                isError |-> TRUE]
                  /\ lastEvent' = Event(Did("applyRepair", FALSE, FALSE, TRUE,
                                            unchanged, NoText),
                                        a, "noFix",
                                        "No fixable issues found in the STL text.",
                                        FALSE, ~currentObject.isNull)
                  /\ UNCHANGED <<currentObject, currentName, currentSize,
                                 downloadDisabled, liveObjects, engineVars,
                                 loads>>
             ELSE /\ loads' = Superseded(loads)
                  /\ \E res \in ParseOutcomes(FmtStl) :
                       CompleteLoad(Did("applyRepair", TRUE, TRUE, TRUE, unchanged,
                                        NoText),
                                    a, res, HiddenPrompt)
                  /\ UNCHANGED engineVars
  /\ UNCHANGED nonViewerVars

\* src/app.js hideRepairPrompt, from the click on the cancel button
CancelRepair ==
  /\ ~repairHidden
  /\ SetPrompt(HiddenPrompt)
  /\ lastEvent' = PlainEvent("hideRepairPrompt", "none", "")
  /\ UNCHANGED <<modelVars, engineVars, loads,
                 nonViewerVars>>

\* src/app.js downloadStl, from the click on the download button
DownloadStl ==
  /\ ~downloadDisabled
  /\ ~currentObject.isNull
  /\ status' = [message |-> "Download started.", isError |-> FALSE]
  /\ lastEvent' = PlainEvent("downloadStl", "none", "Download started.")
  /\ UNCHANGED <<currentObject, currentName, currentSize, downloadDisabled,
                 liveObjects, promptVars, engineVars, loads,
                 nonViewerVars>>

Init == TextIdle /\ FixerInit /\ ViewerInit /\ StlViewerInit

Next ==
  \/ HandleText
  \/ HandleFile
  \/ FileRead
  \/ FileReadFails
  \/ GltfSettles
  \/ ViewerEngineLoads
  \/ ViewerEngineFails
  \/ ScadCompiles
  \/ ScadEngineRejected
  \/ ScadRenderSettles
  \/ ApplyRepair
  \/ CancelRepair
  \/ DownloadStl

Spec == Init /\ [][Next]_vars

(***************************************************************************)
(* src/unnamed/part_000: the STL-only viewer.                              *)
(*                                                                         *)
(* Its handlers run to completion; a file is read by a FileReader, whose   *)
(* onload or onerror callback runs later.  STLLoader is outside the        *)
(* repository: it throws or returns any geometry it can return.            *)
(***************************************************************************)
PastedStlName ==
  <<"p","a","s","t","e","d","-","m","o","d","e","l",".","s","t","l">>

EndsWith(s, suffix) ==
  /\ Len(s) >= Len(suffix)
  /\ SubSeq(s, Len(s) - Len(suffix) + 1, Len(s)) = suffix

\* src/unnamed/part_000 line 169 for each file that can be chosen
StlFileAccepted ==
  [file \in FileInputs |-> EndsWith(LowerText(file.name), <<".","s","t","l">>)]

\* src/unnamed/part_000 line 184 for each text that can be pasted
StlPastedText == [value \in PasteInputs |-> Trim(value)]
StlPastedSize == [value \in PasteInputs |-> ByteSize(Trim(value))]

\* what loader.parse can do with the data
StlParseOutcomes ==
  {Threw("parser error")} \cup {Returned(o) : o \in SingleMeshModels}

\* src/unnamed/part_000 loadStl (with showMesh)
loadStl(res, name, size) ==
  IF res.threw
  THEN /\ stlStatus' = [message |-> "Could not parse STL. Check the file format.",
                        isError |-> TRUE]
       /\ UNCHANGED <<currentMesh, currentGeometry, stlName, stlSize,
                      stlDownloadDisabled>>
  ELSE /\ currentGeometry' = res.object
       /\ stlName' = IF name = << >> THEN DefaultName ELSE name
       /\ stlSize' = size
       /\ currentMesh' = res.object
       /\ stlDownloadDisabled' = FALSE
       /\ stlStatus' = [message |-> "Model loaded.", isError |-> FALSE]

\* src/unnamed/part_000 handleText, from the click on the load button
StlHandleText ==
  /\ \E value \in PasteInputs :
       IF StlPastedText[value] = << >>
       THEN /\ stlStatus' = [message |-> "Paste STL text before loading.",
                             isError |-> TRUE]
            /\ UNCHANGED <<currentMesh, currentGeometry, stlName, stlSize,
                           stlDownloadDisabled>>
       ELSE \E res \in StlParseOutcomes :
              loadStl(res, PastedStlName, StlPastedSize[value])
  /\ UNCHANGED <<stlReads, nonStlViewerVars>>

\* src/unnamed/part_000 handleFile, from a change or a drop
StlHandleFile ==
  /\ \E file \in FileInputs :
       IF ~StlFileAccepted[file]
       THEN /\ stlStatus' = [message |-> "Please choose an STL file.",
                             isError |-> TRUE]
            /\ UNCHANGED stlReads
       ELSE /\ BagCardinality(stlReads) < MaxInFlight
            /\ stlReads' = Suspend(stlReads, file)
            /\ UNCHANGED stlStatus
  /\ UNCHANGED <<currentMesh, currentGeometry, stlName, stlSize,
                 stlDownloadDisabled, nonStlViewerVars>>

\* src/unnamed/part_000 lines 174-176: reader.onload
StlReaderLoads ==
  /\ \E file \in BagToSet(stlReads) :
       /\ stlReads' = Resume(stlReads, file)
       /\ \E res \in StlParseOutcomes :
            loadStl(res, file.name, FileSize[file])
  /\ UNCHANGED nonStlViewerVars

\* src/unnamed/part_000 lines 177-179: reader.onerror
StlReaderFails ==
  /\ \E file \in BagToSet(stlReads) :
       /\ stlReads' = Resume(stlReads, file)
       /\ stlStatus' = [message |-> "Could not read the file.", isError |-> TRUE]
  /\ UNCHANGED <<currentMesh, currentGeometry, stlName, stlSize,
                 stlDownloadDisabled, nonStlViewerVars>>

\* src/unnamed/part_000 downloadStl, from the click on the download button
StlDownloadStl ==
  /\ ~stlDownloadDisabled
  /\ ~currentGeometry.isNull
  /\ stlStatus' = [message |-> "Download started.", isError |-> FALSE]
  /\ UNCHANGED <<currentMesh, currentGeometry, stlName, stlSize,
                 stlDownloadDisabled, stlReads, nonStlViewerVars>>

NextStlViewer ==
  \/ StlHandleText
  \/ StlHandleFile
  \/ StlReaderLoads
  \/ StlReaderFails
  \/ StlDownloadStl

SpecStlViewer == Init /\ [][NextStlViewer]_vars

(***************************************************************************)
(* src/app.js: format detection as handleFile and handleText perform it.   *)
(***************************************************************************)
\* a content longer than the header that handleFile inspects
LongFiller == [i \in 1..HeaderBytes |-> "x"]

DetectNames ==
  { <<"a",".","s","t","l">>, <<"a",".","O","B","J">>,
    <<"a",".","b",".","p","l","y">>, <<".","o","f","f">>,
    <<"a",".","t","x","t">>, <<"a",".">>, <<"a">>, <<"o","b","j">>,
    <<"S","T","L">>, << >> }

DetectContents ==
  { StlOpen, <<"BOM">> \o StlOpen, ObjText, GltfJson, ScadPlain, <<"x">>, << >>,
    <<"g","l","T","F","NUL">>, GltfJson \o <<" ","g","l","T","F">>,
    LongFiller, LongFiller \o <<" ">> \o ScadPlain,
    LongFiller \o <<"g","l","T","F">> }

DetectInputs == [name : DetectNames, content : DetectContents]

\* src/app.js lines 579-580: the tag handleFile gives a file
FileTag(name, content) == detectFormatFromFile(name, Decode(HeaderOf(content)))

\* src/app.js lines 555-561: the tag handleText gives a pasted value
PastedTag(value) ==
  LET text == Trim(RemoveLeadingBom(value))
  IN IF text = << >> THEN NoText ELSE detectFormatFromText(text)

\* handleFile detects the format of the file txtIn
ApplyDetectFromFile ==
  /\ txtPc = "input"
  /\ txtFn' = "detectFormatFromFile"
  /\ txtOut' = FileTag(txtIn.name, txtIn.content)
  /\ txtPc' = "once"
  /\ UNCHANGED <<txtIn, txtOut2, nonTextVars>>

\* handleText detects the format of the content of txtIn, pasted
ApplyDetectFromText ==
  /\ txtPc = "input"
  /\ txtFn' = "detectFormatFromText"
  /\ txtOut' = PastedTag(txtIn.content)
  /\ txtPc' = "once"
  /\ UNCHANGED <<txtIn, txtOut2, nonTextVars>>

InitDetect == TextInit(DetectInputs)
NextDetect == ApplyDetectFromFile \/ ApplyDetectFromText
SpecDetect == InitDetect /\ [][NextDetect]_vars

(***************************************************************************)
(* src/app.js parseOff, from the counts line on.  A document is the two    *)
(* counts and the lines that follow them; a line is the list of the        *)
(* numbers that line.split(/\s+/).map(Number) gives.                       *)
(***************************************************************************)
MaxOffFaces == 2
MaxFaceVertices == 4

VertexLine == <<0, 0, 0>>

\* a face line: the declared count n, then k vertex indices
FaceLine(n, k) == <<n>> \o [i \in 1..k |-> i - 1]

\* face lines that list one index fewer than declared, as many, or one more
FaceLines ==
  UNION {{FaceLine(n, k) : k \in {n - 1, n, n + 1} \ {1}} : n \in 2..MaxFaceVertices}

RECURSIVE SeqsUpTo(_, _)
SeqsUpTo(set, n) ==
  IF n = 0 THEN {<< >>}
  ELSE LET shorter == SeqsUpTo(set, n - 1)
       IN shorter \cup {Append(q, x) : q \in shorter, x \in set}

OffDocuments ==
  { [vertexCount |-> vc, faceCount |-> fc,
     lines |-> [i \in 1..given |-> VertexLine] \o faces] :
      vc \in {0, 3, 4}, fc \in 0..MaxOffFaces,
      given \in {0, 2, 3, 4}, faces \in SeqsUpTo(FaceLines, MaxOffFaces) }

\* src/app.js lines 468-475: the index triples one face line adds
FaceTriples(parts) ==
  IF Len(parts) < 4 THEN << >>
  ELSE LET faceVertices == parts[1]
       IN IF faceVertices < 3 THEN << >>
          ELSE LET last == IF 1 + faceVertices < Len(parts) THEN 1 + faceVertices
                           ELSE Len(parts)
                   faceIndices == SubSeq(parts, 2, last)
               IN [j \in 1..(Len(faceIndices) - 2) |->
                     <<faceIndices[1], faceIndices[j + 1], faceIndices[j + 2]>>]

RECURSIVE AllFaceTriples(_, _)
AllFaceTriples(faceLines, n) ==
  IF n = 0 THEN << >>
  ELSE AllFaceTriples(faceLines, n - 1) \o FaceTriples(faceLines[n])

\* src/app.js parseOff lines 442-487: the mesh has the position attribute of
\* the vertices and, when any triple was emitted, the index of the triples
parseOff(doc) ==
  LET vc == doc.vertexCount
      fc == doc.faceCount
      lines == doc.lines
      rest == Drop(lines, vc + 1)
  IN IF Len(lines) < vc /\ \A i \in 1..Len(lines) : Len(lines[i]) >= 3
     THEN Threw("OFF vertex data is incomplete.")
     ELSE IF \E i \in 1..vc : i <= Len(lines) /\ Len(lines[i]) < 3
     THEN Threw("OFF vertex entry is invalid.")
     ELSE IF Len(rest) < fc
     THEN Threw("OFF face data is incomplete.")
     ELSE Returned(Model(<<[count |-> vc,
                            box |-> IF vc = 0 THEN "empty" ELSE "finite",
                            index |-> AllFaceTriples(rest, fc)]>>))

\* parseOff called on the document txtIn
ApplyParseOff ==
  /\ txtPc = "input"
  /\ txtFn' = "parseOff"
  /\ txtOut' = parseOff(txtIn)
  /\ txtPc' = "once"
  /\ UNCHANGED <<txtIn, txtOut2, nonTextVars>>

\* src/app.js validateObject line 306: the statistics of the parsed model
ApplyOffStats ==
  /\ txtPc = "once"
  /\ txtFn = "parseOff"
  /\ ~txtOut.threw
  /\ txtOut2' = computeObjectStats(txtOut.object)
  /\ txtPc' = "twice"
  /\ UNCHANGED <<txtIn, txtFn, txtOut, nonTextVars>>

InitOff == TextInit(OffDocuments)
NextOff == ApplyParseOff \/ ApplyOffStats
SpecOff == InitOff /\ [][NextOff]_vars

(***************************************************************************)
(* Properties of the viewers.                                              *)
(***************************************************************************)
FailureOutcomes ==
  {"emptyInput", "unrecognized", "readError", "parseError", "notRenderable",
   "invalid"}

\* C1: when applyRepair finds that the repairer returned the pending text
\* unchanged, it reports "No fixable issues found in the STL text." and
\* invokes neither loadInput nor the STL parser.
C1_UnchangedRepairReportsNoFix ==
  (lastEvent.op = "applyRepair" /\ lastEvent.repairerRan
     /\ lastEvent.repairUnchanged)
    => /\ lastEvent.outcome = "noFix"
       /\ ~lastEvent.loadStarted
       /\ ~lastEvent.stlParsed
       /\ status.message = "No fixable issues found in the STL text."

\* C2: repair is applied at most once per load attempt: the load that
\* applyRepair starts has allowRepair off, so its failure surfaces no offer,
\* and no offer ever carries a text that was already repaired.
C2_RepairAtMostOncePerAttempt ==
  /\ offerRepairs = 0
  /\ lastEvent.repairs <= 1
  /\ lastEvent.origin = "repair" =>
       /\ ~lastEvent.allowRepair
       /\ ~lastEvent.offered
       /\ repairHidden
       /\ pendingRepairText = NoText

\* the load of a repaired text has failed
C2_Witness_RetryFailed ==
  /\ lastEvent.origin = "repair"
  /\ lastEvent.loadStarted
  /\ lastEvent.outcome \in {"parseError", "invalid"}
  /\ status.isError

\* C3: a load that fails in the parser or the validator surfaces a repair
\* offer exactly when its format is stl, its data is a string and it was not
\* started by applyRepair; the offer carries the text of that load; and the
\* repairer runs only in applyRepair, the handler of the confirm button.
C3_RepairOfferedOnlyForTextStl ==
  /\ lastEvent.outcome \in {"parseError", "invalid"} =>
       (lastEvent.offered <=>
          /\ lastEvent.format = FmtStl
          /\ lastEvent.dataKind = "string"
          /\ lastEvent.origin # "repair")
  /\ lastEvent.outcome \notin {"parseError", "invalid"} => ~lastEvent.offered
  /\ lastEvent.offered =>
       /\ ~repairHidden
       /\ pendingRepairText = lastEvent.text
       /\ ~lastEvent.repairerRan
  /\ lastEvent.repairerRan => lastEvent.op = "applyRepair"
  /\ lastEvent.origin = "repair" => lastEvent.op = "applyRepair"

\* a textual STL load was rejected by the validator and the offer is shown
C3_Witness_OfferSurfaced ==
  /\ lastEvent.outcome = "invalid"
  /\ lastEvent.offered
  /\ lastEvent.format = FmtStl
  /\ ~repairHidden
  /\ pendingRepairText # NoText

\* C5: after a load that failed (no recognizable format, a parser error, no
\* renderable geometry, a validator message, an unreadable file) no model is
\* shown, the name and size are reset, the download button is disabled and
\* the status line shows the failure as an error; no parsed model is left
\* undisposed.
C5_FailedLoadClearsModel ==
  lastEvent.outcome \in FailureOutcomes =>
    /\ currentObject = NoObject
    /\ currentName = DefaultName
    /\ currentSize = NoSize
    /\ downloadDisabled
    /\ status = [message |-> lastEvent.message, isError |-> TRUE]
    /\ liveObjects = 0

\* a load failed in the validator while a model was shown
C5_Witness_FailedOverShownModel ==
  /\ lastEvent.outcome = "invalid"
  /\ lastEvent.hadModel
  /\ currentObject = NoObject

\* C6: in every load path, a model that is shown has a positive triangle
\* count, a non-empty bounding box and finite dimensions: the validator
\* accepts it.
C6_ShownModelsAreValid ==
  LET Accepted(object) ==
        \/ object.isNull
        \/ LET st == computeObjectStats(object)
           IN st.triangles3 > 0 /\ st.bounds # "empty" /\ st.sizeFinite
  IN /\ Accepted(currentObject)
     /\ Accepted(currentMesh)
     /\ Accepted(currentGeometry)

\* C7: on the SCAD path a load fails with the compile failure only if the
\* compiler threw or returned empty text; a non-empty output that starts
\* with the solid header is handed to the STL parser.
C7_ScadOutputIsParsed ==
  (lastEvent.op = "parseScad" /\ lastEvent.compilerText # NoText
     /\ lastEvent.compilerText # << >>
     /\ TestSolidHeader(lastEvent.compilerText))
    => /\ lastEvent.stlParsed
       /\ lastEvent.message # "SCAD compile failed. Check the syntax."

\* the suspended SCAD loads that wait for the compiler, or for its output
AwaitingEngine == {a \in BagToSet(loads) : a.pc = "engine"}
Rendering == {a \in BagToSet(loads) : a.pc = "render"}

\* C16: the viewer constructs the SCAD compiler at most once: however the
\* getScadCompiler calls interleave, one construction is started by the
\* first call, later calls start none, and a load renders only with the
\* compiler that this one construction delivered.
C16_CompilerConstructedOnce ==
  /\ compilerBuilds <= 1
  /\ compilerBuilds = 0 <=> scadCompilerPromise = NULL
  /\ (AwaitingEngine # {} \/ Rendering # {}) => compilerBuilds = 1
  /\ Rendering # {} => scadCompilerPromise = "fulfilled"

\* two SCAD loads wait for the compiler while its construction is pending
C16_Witness_TwoCallersOnePending ==
  /\ scadCompilerPromise = "pending"
  /\ compilerBuilds = 1
  /\ \E a \in AwaitingEngine : CopiesIn(a, loads) >= 2 \/ AwaitingEngine # {a}

\* C19: the download button is enabled only while a model is loaded: every
\* step that ends with no model, and every step that starts a load and
\* suspends, leaves it disabled, and it is enabled after finalizeLoad.
C19_DownloadEnabledOnlyWithModel ==
  /\ ~downloadDisabled => ~currentObject.isNull
  /\ lastEvent.outcome \in FailureOutcomes => downloadDisabled
  /\ (lastEvent.outcome = "suspended" /\ lastEvent.loadStarted) => downloadDisabled
  /\ lastEvent.outcome = "loaded" => ~downloadDisabled

\* an earlier attempt failed after a later one had loaded its model, and
\* removed that model
C19_Witness_LateFailureDisables ==
  /\ lastEvent.outcome \in {"parseError", "notRenderable", "invalid"}
  /\ ~lastEvent.latest
  /\ lastEvent.hadModel
  /\ currentObject.isNull
  /\ downloadDisabled

\* the outcomes with which loadInput ends
LoadCompletions == {"loaded", "parseError", "notRenderable", "invalid"}

\* C18: when load attempts overlap, an attempt that completes after a later
\* started attempt has completed leaves the current model, name, size and
\* status as they are, so that once all have completed these are the ones of
\* the most recently started attempt.
C18_EarlierAttemptNeverOverwrites ==
  [][(/\ lastEvent'.outcome \in LoadCompletions
      /\ ~lastEvent'.latest
      /\ \A a \in BagToSet(loads) : ~a.latest)
     => UNCHANGED <<currentObject, currentName, currentSize, status>>]_vars

(***************************************************************************)
(* Properties of the text functions.                                       *)
(***************************************************************************)
\* a token: the word, case-insensitively, with a word boundary on both sides
TokenAt(s, i, word) ==
  MatchesAt(s, i, word) /\ WordBoundaryAt(s, i) /\ WordBoundaryAt(s, i + Len(word))

LineStartsWithSolid(line) == TokenAt(line, 1, <<"s","o","l","i","d">>)

LineHasEndsolid(line) ==
  \E i \in 1..Len(line) : TokenAt(line, i, <<"e","n","d","s","o","l","i","d">>)

\* C8: the STL repairer is idempotent: repairing the repaired text gives the
\* repaired text again, for every input text.
C8_RepairStlIdempotent ==
  (txtPc = "twice" /\ txtFn \in {"app.repairStlText", "fixer.repairStlText"})
    => txtOut2 = txtOut

\* C9: the repaired text has a line that starts with the token solid and
\* comes no later than any line containing the token endsolid, and it has at
\* least one endsolid token.
C9_RepairStlHasOpenerAndCloser ==
  (txtPc # "input" /\ txtFn \in {"app.repairStlText", "fixer.repairStlText"})
    => LET lines == SplitLines(txtOut)
       IN /\ \E i \in 1..Len(lines) :
               /\ LineStartsWithSolid(lines[i])
               /\ \A j \in 1..Len(lines) : LineHasEndsolid(lines[j]) => i <= j
          /\ \E j \in 1..Len(lines) : LineHasEndsolid(lines[j])

\* C10: normalizeScadText is idempotent: normalizing the normalized text
\* gives the normalized text again, for every input text.
C10_NormalizeScadIdempotent ==
  (txtPc = "twice" /\ txtFn = "normalizeScadText") => txtOut2 = txtOut

\* C11: repairScadText reports changed exactly when at least one line of the
\* text it returns differs from the corresponding line of its input.
C11_ChangedIffSomeLineDiffers ==
  (txtPc = "once" /\ txtFn = "repairScadText") =>
    LET inLines == SplitLines(txtIn)
        outLines == SplitLines(txtOut.text)
    IN txtOut.changed <=>
         \/ Len(outLines) # Len(inLines)
         \/ \E i \in 1..Len(inLines) : outLines[i] # inLines[i]

\* C12: a file whose name has an extension that is, ignoring case, a known
\* tag gets that tag whatever its content; a file whose name has no
\* extension, or an unknown one, gets the tag its content alone decides (the
\* tag the same content gets under the empty name).
C12_ExtensionWinsElseContentOnly ==
  (txtPc = "once" /\ txtFn = "detectFormatFromFile") =>
    LET name == txtIn.name
        dots == {i \in 1..Len(name) : name[i] = "."}
        last == CHOOSE i \in dots : \A j \in dots : j <= i
        extension == LowerText(SubSeq(name, last + 1, Len(name)))
    IN IF dots # {} /\ extension \in KnownExtensions
       THEN txtOut = extension
       ELSE txtOut = FileTag(<< >>, txtIn.content)

\* C13: detection by content depends only on the first 512 characters: a
\* file without a known extension, or a pasted text, gets the same tag as
\* its first 512 characters alone.
C13_DetectionReadsOnlyTheHeader ==
  LET content == txtIn.content
      prefix == SubSeq(content, 1, IF Len(content) < 512 THEN Len(content) ELSE 512)
  IN /\ (txtPc = "once" /\ txtFn = "detectFormatFromFile"
           /\ LowerText(LastDotPart(txtIn.name)) \notin KnownExtensions)
          => txtOut = FileTag(txtIn.name, prefix)
     /\ (txtPc = "once" /\ txtFn = "detectFormatFromText")
          => txtOut = PastedTag(prefix)

\* C14: the triangle count that computeObjectStats derives for a model from
\* the OFF parser is a whole number and equals the number of triangles of
\* the mesh: its index triples or, without an index, a third of its vertices.
C14_TriangleCountIsExact ==
  (txtPc = "twice" /\ txtFn = "parseOff") =>
    LET mesh == txtOut.object.meshes[1]
        triangles == IF mesh.index # << >> THEN Len(mesh.index)
                     ELSE mesh.count \div 3
    IN /\ txtOut2.triangles3 >= 0
       /\ txtOut2.triangles3 % 3 = 0
       /\ txtOut2.triangles3 = 3 * triangles

\* C15: when the OFF parser returns, the index triples it emitted are, for
\* each of the faceCount face lines declaring n >= 3 vertices, n - 2 triples;
\* lines declaring fewer add none; every triple starts with the first vertex
\* of a face line.
C15_FanTriangulationCount ==
  (txtPc # "input" /\ txtFn = "parseOff" /\ ~txtOut.threw) =>
    LET faces == SubSeq(Drop(txtIn.lines, txtIn.vertexCount + 1), 1,
                        txtIn.faceCount)
        Declared(i) == faces[i][1]
        Expected[i \in 0..Len(faces)] ==
          IF i = 0 THEN 0
          ELSE Expected[i - 1] + (IF Declared(i) >= 3 THEN Declared(i) - 2 ELSE 0)
        index == txtOut.object.meshes[1].index
    IN /\ Len(index) = Expected[Len(faces)]
       /\ \A t \in 1..Len(index) :
            \E i \in 1..Len(faces) : Len(faces[i]) >= 2 /\ index[t][1] = faces[i][2]

====
